---------------------------- MODULE Spec2Model ----------------------------
(***************************************************************************)
(* A model of tools/repopick.py: the command line checks, the Gerrit       *)
(* query dispatch, the construction of the list of mergables, the project  *)
(* path rewriting and the fetch / cherry-pick loop.                        *)
(*                                                                         *)
(* Python strings that the script slices, splits, joins or formats are     *)
(* sequences of one-character strings, so that those operations are        *)
(* computed.  Strings the script only passes along (refs, revision ids,    *)
(* subjects) are plain TLA+ strings.                                       *)
(*                                                                         *)
(* The two else: lines at 114 and 304 are mis-indented by one column in    *)
(* the source; they are read as the else of the if they follow.            *)
(***************************************************************************)
EXTENDS Integers, Sequences, FiniteSets, TLC

(***************************************************************************)
(* Bounds of the model.                                                    *)
(***************************************************************************)
\* longest list of positional change tokens on the command line
MaxTokens == 2

(***************************************************************************)
(* String literals of the script.                                          *)
(***************************************************************************)
S_slash == <<"/">>
S_dash == <<"-">>
S_plus == <<"+">>
S_space == <<" ">>
S_ssh == <<"s", "s", "h">>
S_http == <<"h", "t", "t", "p">>
S_or == <<" ", "O", "R", " ">>
S_change == <<"c", "h", "a", "n", "g", "e", ":">>
S_topic == <<"t", "o", "p", "i", "c", ":">>
S_listsep == <<" ", ":", " ">>
S_qcom_prefix == <<"h", "a", "r", "d", "w", "a", "r", "e", "/", "q", "c", "o", "m", "/">>
S_audio == <<"a", "u", "d", "i", "o">>
S_display == <<"d", "i", "s", "p", "l", "a", "y">>
S_media == <<"m", "e", "d", "i", "a">>
S_bliss == <<"b", "l", "i", "s", "s">>
S_caf == <<"c", "a", "f">>
S_caf_msm == <<"-", "c", "a", "f", "/", "m", "s", "m">>
S_default == <<"/", "d", "e", "f", "a", "u", "l", "t">>
S_LocalBranches == <<"L", "o", "c", "a", "l", " ", "B", "r", "a", "n", "c", "h", "e", "s">>

\* None, where the other values of the variable are strings
None == <<"<None>">>

(***************************************************************************)
(* Python string and integer primitives.                                   *)
(***************************************************************************)
Min(a, b) == IF a < b THEN a ELSE b

\* s[lo:hi]
Slice(s, lo, hi) == SubSeq(s, lo + 1, Min(hi, Len(s)))

\* s.startswith(p)
StartsWith(s, p) == Len(s) >= Len(p) /\ SubSeq(s, 1, Len(p)) = p

MatchAt(s, sep, i) == i + Len(sep) - 1 <= Len(s) /\ SubSeq(s, i, i + Len(sep) - 1) = sep

\* sub in s
Contains(s, sub) == \E i \in 1..Len(s) : MatchAt(s, sub, i)

\* s.split(sep)
RECURSIVE Split(_, _)
Split(s, sep) ==
    IF Contains(s, sep)
    THEN LET i == CHOOSE j \in 1..Len(s) :
                     MatchAt(s, sep, j) /\ \A h \in 1..(j - 1) : ~MatchAt(s, sep, h)
         IN <<SubSeq(s, 1, i - 1)>> \o Split(SubSeq(s, i + Len(sep), Len(s)), sep)
    ELSE <<s>>

\* sep.join(parts)
RECURSIVE Join(_, _)
Join(parts, sep) ==
    IF Len(parts) = 0 THEN <<>>
    ELSE IF Len(parts) = 1 THEN parts[1]
    ELSE parts[1] \o sep \o Join(Tail(parts), sep)

\* s.replace(a, b) for one-character a and b
Replace(s, a, b) == [i \in 1..Len(s) |-> IF <<s[i]>> = a THEN b[1] ELSE s[i]]

Digits == <<"0", "1", "2", "3", "4", "5", "6", "7", "8", "9">>

DigitValue(c) == (CHOOSE d \in 1..10 : Digits[d] = c) - 1

IsNumeral(s) == Len(s) > 0 /\ \A i \in 1..Len(s) : \E d \in 1..10 : Digits[d] = s[i]

\* int(s) for a string of decimal digits
RECURSIVE StrToInt(_)
StrToInt(s) ==
    IF Len(s) = 0 THEN 0
    ELSE 10 * StrToInt(SubSeq(s, 1, Len(s) - 1)) + DigitValue(s[Len(s)])

\* str(n) for n >= 0
RECURSIVE IntToStr(_)
IntToStr(n) ==
    IF n < 10 THEN <<Digits[n + 1]>>
    ELSE IntToStr(n \div 10) \o <<Digits[(n % 10) + 1]>>

\* 1 << n
RECURSIVE Shl(_, _)
Shl(x, n) == IF n = 0 THEN x ELSE Shl(2 * x, n - 1)

\* bool(v) of an optional string (None and '' are false)
Truthy(v) == v # <<>> /\ v # None

\* bool(l) of a list
ListTruthy(l) == Len(l) > 0

BoolInt(b) == IF b THEN 1 ELSE 0

\* a Python value that is an int or a str, as the format method prints it
PyInt(n) == [t |-> "int", n |-> n]
PyStr(s) == [t |-> "str", s |-> s]
Format(v) == IF v.t = "int" THEN IntToStr(v.n) ELSE v.s

(***************************************************************************)
(* The world the script runs in: the command lines tried, the changes the  *)
(* Gerrit server holds and the projects `repo list` reports.               *)
(***************************************************************************)
UrlHttp == <<"h", "t", "t", "p", ":", "/", "/", "r">>
UrlSsh == <<"s", "s", "h", ":", "/", "/", "r">>
UrlFtp == <<"f", "t", "p", ":", "/", "/", "r">>
TopicT == <<"t">>
QueryQ == <<"c", "h", "a", "n", "g", "e", ":", "3", "0", "0", " ", "O", "R", " ", "c", "h", "a", "n", "g", "e", ":", "4", "0", "0">>
T100 == <<"1", "0", "0">>
T100_1 == <<"1", "0", "0", "/", "1">>
T100_2 == <<"1", "0", "0", "/", "2">>
T100_7 == <<"1", "0", "0", "/", "7">>
T200 == <<"2", "0", "0">>
T300 == <<"3", "0", "0">>
T400 == <<"4", "0", "0">>
PathAudioCaf == <<"h", "a", "r", "d", "w", "a", "r", "e", "/", "q", "c", "o", "m", "/", "a", "u", "d", "i", "o", "-", "c", "a", "f", "/", "s", "o", "m", "e", "t", "h", "i", "n", "g">>
PathDisplayCaf == <<"h", "a", "r", "d", "w", "a", "r", "e", "/", "q", "c", "o", "m", "/", "d", "i", "s", "p", "l", "a", "y", "-", "c", "a", "f">>
PathBase == <<"f", "r", "a", "m", "e", "w", "o", "r", "k", "s", "/", "b", "a", "s", "e">>
BranchCaf == <<"b", "l", "i", "s", "s", "-", "9", ".", "0", "-", "c", "a", "f", "-", "m", "s", "m", "8", "9", "9", "8">>
BranchPlain == <<"l", "i", "n", "e", "a", "g", "e", "-", "1", "9", ".", "1">>
ProjAudio == <<"a", "u", "d", "i", "o">>
ProjDisplay == <<"d", "i", "s", "p", "l", "a", "y">>
ProjBase == <<"b", "a", "s", "e">>
ProjGone == <<"g", "o", "n", "e">>
RepoInfoLine == <<"L", "o", "c", "a", "l", " ", "B", "r", "a", "n", "c", "h", "e", "s", ":", " ", "1", " ", "[", "a", "u", "t", "o", "]">>
S_work == <<"w", "o", "r", "k">>
S_auto == <<"a", "u", "t", "o">>

Tokens == {T100, T100_1, T100_2, T100_7, T200, T300, T400}

TokenLists == UNION {[1..n -> Tokens] : n \in 0..MaxTokens}

\* command lines that vary every option, with at most one change token
OptionArgs ==
    [change_number : {<<>>, <<T200>>},
     ignore_missing : BOOLEAN,
     start_branch : {<<>>, <<S_work>>},
     abandon_first : BOOLEAN,
     auto_branch : BOOLEAN,
     quiet : BOOLEAN,
     verbose : BOOLEAN,
     force : BOOLEAN,
     pull : BOOLEAN,
     topic : {None, <<>>, TopicT},
     query : {None, QueryQ},
     gerrit : {UrlHttp, UrlSsh, UrlFtp}]

\* command lines that vary the change tokens and the options of the apply loop
ChangeArgs ==
    [change_number : TokenLists,
     ignore_missing : BOOLEAN,
     start_branch : {<<>>, <<S_work>>},
     abandon_first : {FALSE},
     auto_branch : {FALSE},
     quiet : {FALSE},
     verbose : {FALSE},
     force : BOOLEAN,
     pull : BOOLEAN,
     topic : {None},
     query : {None},
     gerrit : {UrlHttp}]

Args == OptionArgs \cup ChangeArgs

\* fetch info of one revision: protocol name -> {ref, url}
FetchInfo(protocols, ref) ==
    [p \in protocols |-> [ref |-> ref, url |-> "gerrit"]]

\* The changes on the server, in the shape of the REST API.
Rest100 ==
    [_number |-> 100, change_id |-> "I100", subject |-> "audio fix",
     project |-> ProjAudio, branch |-> BranchCaf, status |-> "NEW",
     current_revision |-> "b2",
     revisions |-> [r \in {"a1", "b2"} |->
        IF r = "a1" THEN [_number |-> 1, fetch |-> FetchInfo({"ssh"}, "refs/changes/00/100/1")]
                    ELSE [_number |-> 2, fetch |-> FetchInfo({"ssh"}, "refs/changes/00/100/2")]]]

Rest200 ==
    [_number |-> 200, change_id |-> "I200", subject |-> "display fix",
     project |-> ProjDisplay, branch |-> BranchCaf, status |-> "NEW",
     current_revision |-> "c1",
     revisions |-> [r \in {"c1"} |->
        [_number |-> 1, fetch |-> FetchInfo({"anonymous http", "ssh"}, "refs/changes/00/200/1")]]]

Rest300 ==
    [_number |-> 300, change_id |-> "I300", subject |-> "base fix",
     project |-> ProjBase, branch |-> BranchPlain, status |-> "MERGED",
     current_revision |-> "d1",
     revisions |-> [r \in {"d1"} |->
        [_number |-> 1, fetch |-> FetchInfo({"ssh"}, "refs/changes/00/300/1")]]]

Rest400 ==
    [_number |-> 400, change_id |-> "I400", subject |-> "gone fix",
     project |-> ProjGone, branch |-> BranchPlain, status |-> "NEW",
     current_revision |-> "e1",
     revisions |-> [r \in {"e1"} |->
        [_number |-> 1, fetch |-> FetchInfo({"ssh"}, "refs/changes/00/400/1")]]]

GerritChanges == <<Rest100, Rest200, Rest300, Rest400>>

\* the topic the server files each change under
TopicOf(n) == IF n \in {100, 200} THEN TopicT ELSE <<"x">>

\* A change matches a query when one of the query's terms names it.
Matches(c, terms) ==
    \E k \in 1..Len(terms) :
        \/ terms[k] = S_change \o IntToStr(c._number)
        \/ terms[k] = S_topic \o TopicOf(c._number)

\* the output of `repo list`: one "path : name" line per project
RepoListOutput ==
    <<PathAudioCaf \o S_listsep \o ProjAudio,
      PathDisplayCaf \o S_listsep \o ProjDisplay,
      PathBase \o S_listsep \o ProjBase,
      <<>>>>

\* the output of `repo info`
RepoInfoOutput == RepoInfoLine

(***************************************************************************)
(* The Gerrit query functions.  A result is either the list of reviews     *)
(* with the transport that produced it, or the exception raised.           *)
(***************************************************************************)
DefaultSshPort == 29418

NoExc == ""

Raised(e) == [exc |-> e]

\* what the REST endpoint answers to ?q=<query>: terms are separated by +
GerritRestAnswer(query) ==
    SelectSeq(GerritChanges, LAMBDA c : Matches(c, Split(query, S_plus)))

\* what `gerrit query` answers over ssh, in the shape of the ssh API
GerritSshAnswer(query) ==
    LET hit == SelectSeq(GerritChanges, LAMBDA c : Matches(c, Split(query, S_space)))
    IN [k \in 1..Len(hit) |->
          [branch |-> hit[k].branch, id |-> hit[k].change_id,
           currentPatchSet |-> [revision |-> hit[k].current_revision],
           number |-> IntToStr(hit[k]._number),
           patchSets |-> {[revision |-> r,
                           number |-> IntToStr(hit[k].revisions[r]._number),
                           ref |-> hit[k].revisions[r].fetch["ssh"].ref]
                             : r \in DOMAIN hit[k].revisions},
           subject |-> hit[k].subject, project |-> hit[k].project,
           status |-> hit[k].status]]

CountChar(s, c) == Cardinality({i \in 1..Len(s) : s[i] = c})

fetch_query_via_ssh(remote_url, query) ==
    LET colons == CountChar(remote_url, ":")
        parts == Split(remote_url, <<":">>)
    IN IF colons \notin {1, 2} THEN Raised("Exception")
       ELSE
         LET userhost == parts[2]
             port == IF colons = 2 THEN parts[3] ELSE IntToStr(DefaultSshPort)
             data == GerritSshAnswer(query)
             review(d) ==
                [branch |-> d.branch, change_id |-> d.id,
                 current_revision |-> d.currentPatchSet.revision,
                 number |-> StrToInt(d.number),
                 revisions |-> [r \in {ps.revision : ps \in d.patchSets} |->
                    LET ps == CHOOSE x \in d.patchSets : x.revision = r
                    IN [number |-> StrToInt(ps.number),
                        fetch |-> [p \in {"ssh"} |->
                           [ref |-> ps.ref,
                            url |-> S_ssh \o <<":", "/", "/">> \o userhost \o <<":">>
                                      \o port \o S_slash \o d.project]]]],
                 subject |-> d.subject, project |-> d.project, status |-> d.status]
         IN [exc |-> NoExc, transport |-> "ssh", remote_url |-> remote_url,
             query |-> query,
             reviews |-> [k \in 1..Len(data) |-> review(data[k])]]

fetch_query_via_http(remote_url, query) ==
    LET data == GerritRestAnswer(query)
        renamed(c) ==
            [branch |-> c.branch, change_id |-> c.change_id,
             current_revision |-> c.current_revision, number |-> c._number,
             revisions |-> c.revisions, subject |-> c.subject,
             project |-> c.project, status |-> c.status]
    IN [exc |-> NoExc, transport |-> "http", remote_url |-> remote_url,
        query |-> query,
        reviews |-> [k \in 1..Len(data) |-> renamed(data[k])]]

fetch_query(remote_url, query) ==
    IF Slice(remote_url, 0, 2) = S_ssh
    THEN fetch_query_via_ssh(remote_url, query)
    ELSE IF Slice(remote_url, 0, 4) = S_http
    THEN fetch_query_via_http(remote_url, Replace(query, S_space, S_plus))
    ELSE Raised("Exception")

(***************************************************************************)
(* The rewriting of a project path under hardware/qcom/.                   *)
(***************************************************************************)
\* split_path with split_path[2] trimmed of its -suffix
NormalizedSplitPath(project_path) ==
    LET split_path == Split(project_path, S_slash)
    IN [split_path EXCEPT ![3] = Split(split_path[3], S_dash)[1]]

TrimmedPath_NeverTruncates(split_path) == Join(split_path, S_slash)

\* the path before the branch suffix is appended
TrimmedPath(split_path) ==
    IF split_path[3] = S_display /\ Len(split_path) = 3
    THEN Join(split_path, S_slash)
    ELSE Join(SubSeq(split_path, 1, Len(split_path) - 1), S_slash)

CafSuffix(split_branch) == S_caf_msm \o split_branch[4]

\* a rewriting that leaves the 3-segment display path without the CAF suffix
RewritePath_DisplayExempt(project_path, branch) ==
    IF StartsWith(project_path, S_qcom_prefix)
    THEN LET split_path == NormalizedSplitPath(project_path)
         IN IF split_path[3] \in {S_audio, S_display, S_media}
            THEN LET split_branch == Split(branch, S_dash)
                     trimmed == TrimmedPath(split_path)
                 IN IF split_path[3] = S_display /\ Len(split_path) = 3
                    THEN trimmed
                    ELSE IF /\ Len(split_branch) = 4
                            /\ split_branch[1] = S_bliss
                            /\ split_branch[3] = S_caf
                    THEN trimmed \o CafSuffix(split_branch)
                    ELSE IF split_path[3] \in {S_audio, S_media}
                    THEN trimmed \o S_default
                    ELSE trimmed
            ELSE project_path
    ELSE project_path

RewritePath(project_path, branch) ==
    IF StartsWith(project_path, S_qcom_prefix)
    THEN LET split_path == NormalizedSplitPath(project_path)
         IN IF split_path[3] \in {S_audio, S_display, S_media}
            THEN LET split_branch == Split(branch, S_dash)
                     trimmed == TrimmedPath(split_path)
                 IN IF /\ Len(split_branch) = 4
                       /\ split_branch[1] = S_bliss
                       /\ split_branch[3] = S_caf
                    THEN trimmed \o CafSuffix(split_branch)
                    ELSE IF split_path[3] \in {S_audio, S_media}
                    THEN trimmed \o S_default
                    ELSE trimmed
            ELSE project_path
    ELSE project_path

(***************************************************************************)
(* The state of one run of the script.                                     *)
(***************************************************************************)
VARIABLES
    args,            \* the parsed command line
    pc,              \* where the script is
    exit,            \* how the run ended: exit code, error, place
    project_name_to_path,
    reviews,
    change_numbers,
    mergables,
    k,               \* index of the change token being selected
    i,               \* index of the mergable being applied
    project_path,
    method,
    cmd,
    calls,           \* the transport invocations made by fetch_query
    log,             \* the external commands run, in order
    out              \* the messages printed, in order

vars == <<args, pc, exit, project_name_to_path, reviews, change_numbers,
          mergables, k, i, project_path, method, cmd, calls, log, out>>

Running == [code |-> -1, err |-> "", at |-> ""]

Exited(code, err, at) == [code |-> code, err |-> err, at |-> at]

UnboundCmd == [bound |-> FALSE, argv |-> <<>>]

BoundCmd(argv) == [bound |-> TRUE, argv |-> argv]

\* one external command: its argument list, working directory and the
\* mergable it was run for (0 outside the apply loop)
Command(argv, cwd, item) == [argv |-> argv, cwd |-> cwd, item |-> item]

Message(msg, item) == [msg |-> msg, item |-> item]

Init ==
    /\ args \in Args
    /\ pc = "parse"
    /\ exit = Running
    /\ project_name_to_path = <<>>
    /\ reviews = <<>>
    /\ change_numbers = <<>>
    /\ mergables = <<>>
    /\ k = 1
    /\ i = 1
    /\ project_path = None
    /\ method = ""
    /\ cmd = UnboundCmd
    /\ calls = <<>>
    /\ log = <<>>
    /\ out = <<>>

(***************************************************************************)
(* Command line checks.                                                    *)
(***************************************************************************)
SelectionOk_AtLeastOne(a) ==
    Shl(Shl(Shl(1, BoolInt(ListTruthy(a.change_number))),
            BoolInt(Truthy(a.topic))),
        BoolInt(Truthy(a.query))) >= 2

\* (1 << bool(change_number) << bool(topic) << bool(query)) != 2 is false
SelectionOk(a) ==
    Shl(Shl(Shl(1, BoolInt(ListTruthy(a.change_number))),
            BoolInt(Truthy(a.topic))),
        BoolInt(Truthy(a.query))) = 2

\* the effect of --auto-branch on the other options
AutoBranch(a) ==
    IF a.auto_branch
    THEN [a EXCEPT !.abandon_first = TRUE,
                   !.ignore_missing = TRUE,
                   !.start_branch = IF ~ListTruthy(@) THEN <<S_auto>> ELSE @]
    ELSE a

ParseArgs ==
    /\ pc = "parse"
    /\ LET a == AutoBranch(args)
           err == IF ~ListTruthy(args.start_branch) /\ args.abandon_first
                  THEN "abandon_first_without_start_branch"
                  ELSE IF a.quiet /\ a.verbose THEN "quiet_and_verbose"
                  ELSE IF ~SelectionOk(a) THEN "one_and_only_one"
                  ELSE ""
       IN /\ args' = IF err = "abandon_first_without_start_branch" THEN args ELSE a
          /\ IF err = ""
             THEN pc' = "tree" /\ exit' = exit
             ELSE pc' = "exit" /\ exit' = Exited(2, err, "parse")
    /\ UNCHANGED <<project_name_to_path, reviews, change_numbers, mergables, k, i,
                   project_path, method, cmd, calls, log, out>>

\* ANDROID_BUILD_TOP and the .repo directory: the environment decides
CheckTree ==
    /\ pc = "tree"
    /\ \E env \in {"ok", "outside_top", "no_repo"} :
          IF env = "ok"
          THEN pc' = "abandon" /\ exit' = exit
          ELSE pc' = "exit" /\ exit' = Exited(1, env, "tree")
    /\ UNCHANGED <<args, project_name_to_path, reviews, change_numbers, mergables,
                   k, i, project_path, method, cmd, calls, log, out>>

\* re.match(r'Local Branches.*\[(.*)\]', pline): the group, or no match
LocalBranchesMatch(pline) ==
    LET opens == {a \in (Len(S_LocalBranches) + 1)..Len(pline) :
                    /\ pline[a] = "["
                    /\ \E b \in (a + 1)..Len(pline) : pline[b] = "]"}
    IN IF StartsWith(pline, S_LocalBranches) /\ opens # {}
       THEN LET a == CHOOSE x \in opens : \A y \in opens : y <= x
                b == CHOOSE x \in (a + 1)..Len(pline) :
                        /\ pline[x] = "]"
                        /\ \A y \in (x + 1)..Len(pline) : pline[y] # "]"
            IN [matched |-> TRUE, group |-> SubSeq(pline, a + 1, b - 1)]
       ELSE [matched |-> FALSE, group |-> <<>>]

\* the loop over plist walks the characters of the output, not its lines
NeedsAbandon(plist, branch) ==
    \E c \in 1..Len(plist) :
        LET m == LocalBranchesMatch(<<plist[c]>>)
        IN /\ m.matched
           /\ LET local_branches == Split(m.group, <<",">>)
              IN \E b \in 1..Len(local_branches) : Contains(local_branches[b], branch)

AbandonFirst ==
    /\ pc = "abandon"
    /\ IF args.abandon_first
       THEN LET info == Command(<<"repo", "info">>, None, 0)
            IN IF NeedsAbandon(RepoInfoOutput, args.start_branch[1])
               THEN /\ log' = log \o <<info, Command(<<"repo", "abandon", args.start_branch[1]>>, None, 0)>>
                    /\ out' = IF args.quiet THEN out
                              ELSE out \o <<Message("abandoning", 0)>>
               ELSE log' = Append(log, info) /\ out' = out
       ELSE log' = log /\ out' = out
    /\ pc' = "list"
    /\ UNCHANGED <<args, exit, project_name_to_path, reviews, change_numbers,
                   mergables, k, i, project_path, method, cmd, calls>>

\* the lines of `repo list` up to the first empty one
RECURSIVE ListedLines(_)
ListedLines(plist) ==
    IF Len(plist) = 0 \/ Len(plist[1]) = 0 THEN <<>>
    ELSE <<plist[1]>> \o ListedLines(Tail(plist))

\* project_name_to_path[ppaths[1]] = ppaths[0], a later line overriding
ProjectMap(plist) ==
    LET lines == ListedLines(plist)
        name(n) == Split(lines[n], S_listsep)[2]
        path(n) == Split(lines[n], S_listsep)[1]
    IN [p \in {name(n) : n \in 1..Len(lines)} |->
          path(CHOOSE n \in 1..Len(lines) :
                  name(n) = p /\ \A m \in (n + 1)..Len(lines) : name(m) # p)]

ListProjects ==
    /\ pc = "list"
    /\ log' = Append(log, Command(<<"repo", "list">>, None, 0))
    /\ project_name_to_path' = ProjectMap(RepoListOutput)
    /\ pc' = "query"
    /\ UNCHANGED <<args, exit, reviews, change_numbers, mergables, k, i,
                   project_path, method, cmd, calls, out>>

(***************************************************************************)
(* Fetching the reviews and building the list of mergables.                *)
(***************************************************************************)
\* the query for the positional change numbers
ChangeQuery(change_number) ==
    Join([n \in 1..Len(change_number) |->
             S_change \o Split(change_number[n], S_slash)[1]], S_or)

\* str(r['number']) for each review
NumbersOf(rs) == [n \in 1..Len(rs) |-> IntToStr(rs[n].number)]

\* the fetch_query calls of the three if statements, in their order
QueriesOf(a) ==
    (IF Truthy(a.topic) THEN <<[mode |-> "topic", q |-> S_topic \o a.topic]>> ELSE <<>>)
    \o (IF Truthy(a.query) THEN <<[mode |-> "query", q |-> a.query]>> ELSE <<>>)
    \o (IF ListTruthy(a.change_number)
        THEN <<[mode |-> "change", q |-> ChangeQuery(a.change_number)]>> ELSE <<>>)

\* runs the calls in order; stops at the first that raises
RECURSIVE RunQueries(_, _, _)
RunQueries(qs, a, acc) ==
    IF Len(qs) = 0 THEN acc
    ELSE LET r == fetch_query(a.gerrit, qs[1].q)
         IN IF r.exc # NoExc
            THEN [acc EXCEPT !.exc = r.exc]
            ELSE RunQueries(Tail(qs), a,
                   [exc |-> NoExc,
                    reviews |-> r.reviews,
                    change_numbers |-> IF qs[1].mode = "change" THEN a.change_number
                                       ELSE NumbersOf(r.reviews),
                    calls |-> Append(acc.calls,
                                [transport |-> r.transport,
                                 remote_url |-> r.remote_url,
                                 query |-> r.query])])

FetchReviews ==
    /\ pc = "query"
    /\ LET r == RunQueries(QueriesOf(args), args,
                   [exc |-> NoExc, reviews |-> <<>>, change_numbers |-> <<>>,
                    calls |-> <<>>])
       IN /\ calls' = calls \o r.calls
          /\ reviews' = r.reviews
          /\ change_numbers' = r.change_numbers
          /\ IF r.exc # NoExc
             THEN pc' = "exit" /\ exit' = Exited(1, r.exc, "query")
             ELSE IF Len(r.change_numbers) = 0
             THEN pc' = "done" /\ exit' = [code |-> 0, err |-> "", at |-> "end"]
             ELSE pc' = "select" /\ exit' = exit
    /\ UNCHANGED <<args, project_name_to_path, mergables, k, i, project_path,
                   method, cmd, log, out>>

\* x['_number'] for a key x of the revisions dict: indexing a string by a
\* string raises TypeError
KeyItem(x, name) == Raised("TypeError")

\* [x['fetch'] for x in review['revisions'] if x['_number'] == patchset][0]:
\* the comprehension walks the keys of the dict
PatchsetFetch(review, patchset) ==
    LET keys == DOMAIN review.revisions
    IN IF \E x \in keys : KeyItem(x, "_number").exc # NoExc
       THEN KeyItem(CHOOSE x \in keys : KeyItem(x, "_number").exc # NoExc, "_number")
       ELSE Raised("IndexError")

\* one pass of the loop over change_numbers: the mergable appended (if the
\* pass got that far), the warning printed and the exception raised
SelectOne(change_token, rs) ==
    LET has_slash == Contains(change_token, S_slash)
        parts == Split(change_token, S_slash)
        nothing == [exc |-> NoExc, appended |-> <<>>, warned |-> FALSE]
    IN IF has_slash /\ Len(parts) # 2 THEN [nothing EXCEPT !.exc = "ValueError"]
       ELSE
         LET change_str == IF has_slash THEN parts[1] ELSE change_token
             patchset == IF has_slash THEN parts[2] ELSE None
         IN IF ~IsNumeral(change_str) THEN [nothing EXCEPT !.exc = "ValueError"]
            ELSE
              LET change == StrToInt(change_str)
                  found == SelectSeq(rs, LAMBDA x : x.number = change)
              IN IF Len(found) = 0 THEN [nothing EXCEPT !.exc = "IndexError"]
                 ELSE
                   LET review == found[1]
                   IN IF review.current_revision \notin DOMAIN review.revisions
                      THEN [nothing EXCEPT !.exc = "KeyError"]
                      ELSE
                        LET m == [subject |-> review.subject,
                                  project |-> review.project,
                                  branch |-> review.branch,
                                  change_number |-> review.number,
                                  status |-> review.status,
                                  fetch |-> review.revisions[review.current_revision].fetch,
                                  id |-> PyInt(change)]
                        IN IF ~Truthy(patchset)
                           THEN [nothing EXCEPT !.appended = <<m>>]
                           ELSE
                             LET f == PatchsetFetch(review, patchset)
                             IN IF f.exc = NoExc
                                THEN [nothing EXCEPT !.appended =
                                        <<[m EXCEPT !.fetch = f.fetch,
                                                    !.id = PyStr(IntToStr(change) \o S_slash \o patchset)]>>]
                                ELSE IF f.exc \in {"IndexError", "ValueError"}
                                THEN [nothing EXCEPT !.appended = <<m>>, !.warned = TRUE]
                                ELSE [nothing EXCEPT !.appended = <<m>>, !.exc = f.exc]

SelectChange ==
    /\ pc = "select"
    /\ LET r == SelectOne(change_numbers[k], reviews)
       IN /\ mergables' = mergables \o r.appended
          /\ out' = IF r.warned THEN Append(out, Message("patch_set_not_found", k)) ELSE out
          /\ IF r.exc # NoExc
             THEN pc' = "exit" /\ exit' = Exited(1, r.exc, "select") /\ k' = k
             ELSE /\ exit' = exit
                  /\ k' = k + 1
                  /\ pc' = IF k = Len(change_numbers) THEN "item" ELSE "select"
    /\ UNCHANGED <<args, project_name_to_path, reviews, change_numbers, i,
                   project_path, method, cmd, calls, log>>

(***************************************************************************)
(* The loop over the mergables.                                            *)
(***************************************************************************)
\* the loop moves to the next mergable, or ends
AfterItem(n) == IF n >= Len(mergables) THEN "done" ELSE "item"

\* falling off the end of the script is exit code 0
Finished == [code |-> 0, err |-> "", at |-> "end"]

ExitAfter(n) == IF n >= Len(mergables) THEN Finished ELSE exit

\* an already merged change is skipped unless -f is given
SkipMerged_IgnoresForce(item, force) == item.status = "MERGED"

SkipMerged(item, force) == item.status = "MERGED" /\ ~force

\* lines 246-253: the MERGED check
CheckMerged ==
    /\ pc = "item"
    /\ LET item == mergables[i]
           applying == Message("applying", i)
       IN IF SkipMerged(item, args.force)
          THEN /\ out' = out \o <<applying, Message("already_merged_skipping", i)>>
               /\ pc' = AfterItem(i)
               /\ exit' = ExitAfter(i)
               /\ i' = i + 1
          ELSE IF item.status = "MERGED"
          THEN /\ out' = out \o <<applying, Message("force_picking_merged", i)>>
               /\ pc' = "resolve"
               /\ UNCHANGED <<i, exit>>
          ELSE /\ out' = Append(out, applying)
               /\ pc' = "resolve"
               /\ UNCHANGED <<i, exit>>
    /\ UNCHANGED <<args, project_name_to_path, reviews, change_numbers,
                   mergables, k, project_path, method, cmd, calls, log>>

\* what happens to a mergable whose project has no path
OnMissing_AlwaysSkip(a) == "skip"

OnMissing(a) == IF a.ignore_missing THEN "skip" ELSE "exit"

\* lines 257-286: project name to project path
ResolveProject ==
    /\ pc = "resolve"
    /\ LET item == mergables[i]
       IN IF item.project \in DOMAIN project_name_to_path
          THEN /\ project_path' = RewritePath(project_name_to_path[item.project], item.branch)
               /\ pc' = "fetch"
               /\ UNCHANGED <<i, exit, out>>
          ELSE IF OnMissing(args) = "skip"
          THEN /\ project_path' = None
               /\ out' = Append(out, Message("skipping_no_project_directory", i))
               /\ pc' = AfterItem(i)
               /\ i' = i + 1
               /\ exit' = ExitAfter(i)
          ELSE /\ project_path' = None
               /\ pc' = "exit"
               /\ exit' = Exited(1, "no_project_path", "resolve")
               /\ UNCHANGED <<i, out>>
    /\ UNCHANGED <<args, project_name_to_path, reviews, change_numbers, mergables,
                   k, method, cmd, calls, log>>

\* lines 302-307: the fetch method, and the command when the method is ssh
PrimaryMethod(item) == IF "anonymous http" \in DOMAIN item.fetch THEN "anonymous http" ELSE "ssh"

PrimaryCommand(item, old_cmd) ==
    IF "anonymous http" \in DOMAIN item.fetch
    THEN old_cmd
    ELSE BoundCmd(<<"git fetch github", item.fetch["ssh"].ref>>)

\* lines 289-310: repo start, then the fetch from GitHub
StartAndFetch ==
    /\ pc = "fetch"
    /\ LET item == mergables[i]
           started == IF ListTruthy(args.start_branch)
                      THEN <<Command(<<"repo", "start", args.start_branch[1], project_path>>, None, i)>>
                      ELSE <<>>
           info == IF args.quiet THEN <<>> ELSE <<Message("subject_and_path", i)>>
           c == PrimaryCommand(item, cmd)
       IN /\ method' = PrimaryMethod(item)
          /\ cmd' = c
          /\ out' = out \o info
          /\ IF c.bound
             THEN /\ log' = log \o started \o <<Command(c.argv, project_path, i)>>
                  /\ pc' = "finish"
                  /\ exit' = exit
             ELSE /\ log' = log \o started
                  /\ pc' = "exit"
                  /\ exit' = Exited(1, "NameError", "fetch")
    /\ UNCHANGED <<args, project_name_to_path, reviews, change_numbers, mergables,
                   k, i, project_path, calls>>

\* lines 317-320: the fetch from Gerrit
FallbackCommand(item, m, pull) ==
    IF pull
    THEN BoundCmd(<<"git pull --no-edit", item.fetch[m].url, item.fetch[m].ref>>)
    ELSE BoundCmd(<<"git fetch", item.fetch[m].url, item.fetch[m].ref>>)

CherryPickCommand == BoundCmd(<<"git cherry-pick FETCH_HEAD">>)

\* lines 312-327: FETCH_HEAD check, fetch from Gerrit, cherry-pick
FinishItem ==
    /\ pc = "finish"
    /\ \E fetch_head_size \in {0, 1} :
          LET item == mergables[i]
              fallback == IF fetch_head_size = 0
                          THEN <<FallbackCommand(item, method, args.pull)>>
                          ELSE <<>>
              pick == IF ~args.pull THEN <<CherryPickCommand>> ELSE <<>>
              run == fallback \o pick
          IN /\ log' = log \o [n \in 1..Len(run) |-> Command(run[n].argv, project_path, i)]
             /\ cmd' = IF Len(run) = 0 THEN cmd ELSE run[Len(run)]
    /\ pc' = AfterItem(i)
    /\ exit' = ExitAfter(i)
    /\ i' = i + 1
    /\ UNCHANGED <<args, project_name_to_path, reviews, change_numbers,
                   mergables, k, project_path, method, calls, out>>

Next ==
    \/ ParseArgs
    \/ CheckTree
    \/ AbandonFirst
    \/ ListProjects
    \/ FetchReviews
    \/ SelectChange
    \/ CheckMerged
    \/ ResolveProject
    \/ StartAndFetch
    \/ FinishItem

Spec == Init /\ [][Next]_vars

(***************************************************************************)
(* Properties.                                                             *)
(***************************************************************************)
P_audio_claimed == <<"h", "a", "r", "d", "w", "a", "r", "e", "/", "q", "c", "o", "m", "/", "a", "u", "d", "i", "o", "-", "c", "a", "f", "/", "m", "s", "m", "8", "9", "9", "8">>
P_audio_actual == <<"h", "a", "r", "d", "w", "a", "r", "e", "/", "q", "c", "o", "m", "/", "a", "u", "d", "i", "o", "-", "c", "a", "f", "/", "m", "s", "m", "m", "s", "m", "8", "9", "9", "8">>
P_audio_trunc == <<"h", "a", "r", "d", "w", "a", "r", "e", "/", "q", "c", "o", "m", "/", "a", "u", "d", "i", "o">>
P_display_claimed == <<"h", "a", "r", "d", "w", "a", "r", "e", "/", "q", "c", "o", "m", "/", "d", "i", "s", "p", "l", "a", "y">>
P_display_actual == <<"h", "a", "r", "d", "w", "a", "r", "e", "/", "q", "c", "o", "m", "/", "d", "i", "s", "p", "l", "a", "y", "-", "c", "a", "f", "/", "m", "s", "m", "m", "s", "m", "8", "9", "9", "8">>

\* how many of change_number, topic and query are non-empty
NonEmptyModes(a) ==
    BoolInt(Len(a.change_number) > 0)
    + BoolInt(a.topic # None /\ Len(a.topic) > 0)
    + BoolInt(a.query # None /\ Len(a.query) > 0)

InLoop == pc \in {"item", "resolve", "fetch", "finish", "done"}

\* the fetch of the reviews is over
QueryOver == pc = "select" \/ InLoop \/ (pc = "exit" /\ exit.at \notin {"parse", "tree"})

\* the loop over change_numbers is over, normally or by an exception
SelectionOver == InLoop \/ (pc = "exit" /\ exit.at \in {"select", "resolve", "fetch"})

CommandsFor(j) == {n \in 1..Len(log) : log[n].item = j}

Printed(msg, j) == \E n \in 1..Len(out) : out[n] = Message(msg, j)

\* C1: when none or more than one of change_number, topic and query is
\* non-empty, the run is rejected by the argument parser (exit code 2) and
\* no Gerrit query and no external command has been issued; a Gerrit query
\* is only ever issued with exactly one of the three non-empty.
C1_SelectionRejected ==
    /\ (NonEmptyModes(args) # 1 /\ pc # "parse")
          => /\ pc = "exit"
             /\ exit.code = 2
             /\ exit.at = "parse"
             /\ calls = <<>>
             /\ log = <<>>
    /\ exit.err = "one_and_only_one" => NonEmptyModes(args) # 1
    /\ calls # <<>> => NonEmptyModes(args) = 1

C1_Witness ==
    /\ pc = "exit"
    /\ exit.err = "one_and_only_one"
    /\ NonEmptyModes(args) > 1
    /\ calls = <<>>

\* C2: once the reviews have been asked for, a URL beginning with ssh was
\* handled by the ssh transport, a URL beginning with http by the http
\* transport with the spaces of the query replaced by +, and any other URL
\* ended the run with an error and no transport call.
C2_DispatchByScheme ==
    QueryOver =>
       LET asked == QueriesOf(args)
       IN /\ StartsWith(args.gerrit, S_ssh)
               => /\ Len(calls) = Len(asked)
                  /\ \A n \in 1..Len(calls) : calls[n].transport = "ssh"
          /\ StartsWith(args.gerrit, S_http)
               => /\ Len(calls) = Len(asked)
                  /\ \A n \in 1..Len(calls) :
                        /\ calls[n].transport = "http"
                        /\ calls[n].query = Replace(asked[n].q, S_space, S_plus)
          /\ (~StartsWith(args.gerrit, S_ssh) /\ ~StartsWith(args.gerrit, S_http))
               => /\ calls = <<>>
                  /\ pc = "exit"
                  /\ exit.at = "query"

\* the mergable being applied has the mapped path p and the branch b, and
\* its path has just been resolved
ResolvedFor(p, b) ==
    /\ pc = "fetch"
    /\ mergables[i].project \in DOMAIN project_name_to_path
    /\ project_name_to_path[mergables[i].project] = p
    /\ mergables[i].branch = b

\* C3 as stated: hardware/qcom/audio-caf/something on branch
\* bliss-9.0-caf-msm8998 resolves to hardware/qcom/audio-caf/msm8998.
C3_AudioCafPathAsStated ==
    ResolvedFor(PathAudioCaf, BranchCaf) => project_path = P_audio_claimed

\* C3: hardware/qcom/audio-caf/something on branch bliss-9.0-caf-msm8998 has
\* its third segment normalized to audio, is truncated to hardware/qcom/audio
\* and resolves to hardware/qcom/audio-caf/msmmsm8998: the fourth branch
\* token msm8998 is appended whole after -caf/msm.
C3_AudioCafPath ==
    ResolvedFor(PathAudioCaf, BranchCaf)
       => /\ NormalizedSplitPath(PathAudioCaf)[3] = S_audio
          /\ TrimmedPath(NormalizedSplitPath(PathAudioCaf)) = P_audio_trunc
          /\ project_path = P_audio_actual

C3_Witness ==
    ResolvedFor(PathAudioCaf, BranchCaf) /\ project_path = P_audio_actual

\* C4 as stated: hardware/qcom/display-caf on branch bliss-9.0-caf-msm8998
\* stays hardware/qcom/display.
C4_DisplayPathAsStated ==
    ResolvedFor(PathDisplayCaf, BranchCaf) => project_path = P_display_claimed

\* C4: hardware/qcom/display-caf on branch bliss-9.0-caf-msm8998 keeps its
\* three segments hardware, qcom, display untruncated, and the CAF suffix is
\* still appended: it resolves to hardware/qcom/display-caf/msmmsm8998.
C4_DisplayPath ==
    ResolvedFor(PathDisplayCaf, BranchCaf)
       => /\ Len(NormalizedSplitPath(PathDisplayCaf)) = 3
          /\ TrimmedPath(NormalizedSplitPath(PathDisplayCaf)) = P_display_claimed
          /\ project_path = P_display_actual

C4_Witness ==
    ResolvedFor(PathDisplayCaf, BranchCaf) /\ project_path = P_display_actual

\* the change number and the patch set of a token N or N/P
TokenChange(tok) == StrToInt(Split(tok, S_slash)[1])
TokenHasPatchset(tok) == Contains(tok, S_slash)
TokenPatchset(tok) == Split(tok, S_slash)[2]

ReviewOf(n) == CHOOSE r \in {reviews[x] : x \in 1..Len(reviews)} : r.number = n

Fetched(n) == \E x \in 1..Len(reviews) : reviews[x].number = n

\* the revisions of review n whose patch-set number is p
RevisionsWith(n, p) ==
    {r \in DOMAIN ReviewOf(n).revisions : IntToStr(ReviewOf(n).revisions[r]._number) = p}

\* C5: when the change numbers of all positional tokens occur in the fetched
\* reviews, the list of mergables has the length and order of the token
\* list, and the id of the n-th mergable prints as the n-th token.
C5_OrderAndIds ==
    LET tokens == args.change_number
    IN (/\ SelectionOver
        /\ Len(tokens) > 0
        /\ \A n \in 1..Len(tokens) : Fetched(TokenChange(tokens[n])))
          => /\ Len(mergables) = Len(tokens)
             /\ \A n \in 1..Len(tokens) : Format(mergables[n].id) = tokens[n]

\* C6: for a token N/P where review N has a revision with patch-set number
\* P, the list of mergables is built without error and the mergable of that
\* token carries the fetch info of that revision.
C6_ExplicitPatchset ==
    LET tokens == args.change_number
    IN SelectionOver =>
         \A n \in 1..Len(tokens) :
            (/\ TokenHasPatchset(tokens[n])
             /\ Fetched(TokenChange(tokens[n]))
             /\ RevisionsWith(TokenChange(tokens[n]), TokenPatchset(tokens[n])) # {})
               => /\ ~(pc = "exit" /\ exit.at = "select")
                  /\ n <= Len(mergables)
                  /\ \E r \in RevisionsWith(TokenChange(tokens[n]), TokenPatchset(tokens[n])) :
                        mergables[n].fetch = ReviewOf(TokenChange(tokens[n])).revisions[r].fetch

\* C7: for a token N/P where no revision of review N has patch-set number
\* P, the run does not abort, a warning is printed, the mergable carries the
\* fetch info of the current revision and its id prints as N/P.
C7_PatchsetFallback ==
    LET tokens == args.change_number
    IN SelectionOver =>
         \A n \in 1..Len(tokens) :
            (/\ TokenHasPatchset(tokens[n])
             /\ Fetched(TokenChange(tokens[n]))
             /\ RevisionsWith(TokenChange(tokens[n]), TokenPatchset(tokens[n])) = {})
               => /\ ~(pc = "exit" /\ exit.at = "select")
                  /\ n <= Len(mergables)
                  /\ Printed("patch_set_not_found", n)
                  /\ LET review == ReviewOf(TokenChange(tokens[n]))
                     IN mergables[n].fetch = review.revisions[review.current_revision].fetch
                  /\ Format(mergables[n].id) = tokens[n]

\* the script is in, or ended in, the loop over the mergables
LoopReached == InLoop \/ (pc = "exit" /\ exit.at \in {"resolve", "fetch"})

\* the MERGED check of mergable j has been made
Begun(j) == LoopReached /\ (i > j \/ (i = j /\ pc # "item"))

\* the project path lookup of mergable j has been made
Looked(j) == LoopReached /\ (i > j \/ (i = j /\ pc \notin {"item", "resolve"}))

\* the loop has moved past mergable j
Passed(j) == LoopReached /\ i > j

SkippedAsMerged(j) == mergables[j].status = "MERGED" /\ ~args.force

Missing(j) == mergables[j].project \notin DOMAIN project_name_to_path

C9_MissingProject ==
    /\ [](\A j \in 1..Len(mergables) :
            (Looked(j) /\ Missing(j) /\ ~SkippedAsMerged(j))
               => IF args.ignore_missing
                  THEN /\ Printed("skipping_no_project_directory", j)
                       /\ CommandsFor(j) = {}
                       /\ Passed(j)
                  ELSE /\ pc = "exit"
                       /\ exit = Exited(1, "no_project_path", "resolve")
                       /\ i = j
                       /\ \A n \in 1..Len(log) : log[n].item < j)
    /\ [][(pc = "resolve" /\ Missing(i))
             => IF args.ignore_missing
                THEN /\ i' = i + 1
                     /\ pc' = (IF i < Len(mergables) THEN "item" ELSE "done")
                     /\ log' = log
                ELSE /\ pc' = "exit"
                     /\ exit'.code = 1
                     /\ log' = log]_vars

C9_Witness ==
    /\ LoopReached
    /\ args.ignore_missing
    /\ \E j \in 1..Len(mergables) :
          /\ Missing(j)
          /\ Printed("skipping_no_project_directory", j)
          /\ CommandsFor(j) = {}
          /\ \E h \in (j + 1)..Len(mergables) : CommandsFor(h) # {}

IsCherryPick(e) == e.argv[1] = "git cherry-pick FETCH_HEAD"

IsPullOf(e, item) ==
    /\ e.argv[1] \in {"git pull --no-edit", "git pull --no-edit github"}
    /\ e.argv[Len(e.argv)] \in {item.fetch[p].ref : p \in DOMAIN item.fetch}

\* C10: once the loop has moved past a mergable that was neither skipped as
\* MERGED nor skipped for a missing project path, a cherry-pick was run for
\* it when pull mode is off, and a pull of its ref when pull mode is on.
C10_ApplyStepReached ==
    \A j \in 1..Len(mergables) :
       (Passed(j) /\ ~SkippedAsMerged(j) /\ ~Missing(j))
          => IF args.pull
             THEN \E n \in CommandsFor(j) : IsPullOf(log[n], mergables[j])
             ELSE \E n \in CommandsFor(j) : IsCherryPick(log[n])

=============================================================================
